---- MODULE Spec2Model ----
(***************************************************************************)
(* Model of the go-ftw runner (package runner: Run, RunTest, RunStage,     *)
(* markAndFlush, needToSkipTest, overriddenTestResult, checkResult) and of *)
(* the log reader's construction and cleanup (package waflog).             *)
(*                                                                         *)
(* The run is one sequential process; pc is its position.  The tests the   *)
(* run iterates over are immutable input read front to back, so the model  *)
(* draws each test, test case and stage when the loop reaches it, and      *)
(* whether a list has one more element when the loop asks.  The input of   *)
(* a run is at most MaxTests tests holding at most MaxCases test cases     *)
(* and MaxStages stages in all.                                            *)
(***************************************************************************)
EXTENDS Integers, Sequences, FiniteSets

VARIABLES
    pc,          \* position of the run
    cfg,         \* config.FTWConfig and the runner Config (fixed for a run)
    logLines,    \* waflog.FTWLogLines: FileName and the state of logFile
    closes,      \* number of logFile.Close() calls made so far
    runContext,  \* TestRunContext: Stats and Result
    tests,       \* how much of its input the run has read so far: tests,
                 \* test cases and stages
    ftwTest,     \* the test RunTest is in: Meta.Enabled
    testCase,    \* the test case of the current loop iteration
    stage,       \* the stage RunStage is (or was last) working on
    mf,          \* locals of the current markAndFlush invocation
    hist,        \* history counters: what the run went through
    ret,         \* what Run returned
    call,        \* arguments of a call on record: of checkResult checked in
                 \* isolation, of RunStage where the run records them
    out          \* its result

vars == <<pc, cfg, logLines, closes, runContext, tests, ftwTest, testCase,
          stage, mf, hist, ret, call, out>>

----------------------------------------------------------------------------
(* Bounds of the model. *)

MaxTests == 1
MaxCases == 2
MaxStages == 2
MaxStageTime == 1

(* Program constant: the retry budget of markAndFlush. *)
MaxAttempts_OneMore == 20 + 1

MaxAttempts == 20

Nil == "nil"

TestResults == {"Success", "Failed", "Skipped", "Ignored", "ForceFail", "ForcePass"}

DefaultRunMode == "default"
CloudRunMode == "cloud"

(* HTTP status codes and text fragments the checks are exercised with. *)
StatusCodes == {200, 403}
Fragments == {"x"}

----------------------------------------------------------------------------
(* Titles and patterns.  A regular expression is modelled by its name and  *)
(* a test title by the set of configured patterns and override lists that  *)
(* match it, which is all the code ever asks of a title.                   *)

MatchString(re, title) == re \in title

ForcedIgnore(id) == "ignore" \in id
ForcedFail(id) == "forcefail" \in id
ForcedPass(id) == "forcepass" \in id

(* Titles a configuration can meet: a pattern that is not configured       *)
(* matches nothing.                                                        *)
Titles(c) ==
    SUBSET ({"ignore", "forcefail", "forcepass"}
            \cup (IF c.Include = Nil THEN {} ELSE {c.Include})
            \cup (IF c.Exclude = Nil THEN {} ELSE {c.Exclude}))

needToSkipTest_NoEnabledCheck(include, exclude, title, enabled) ==
    IF include # Nil /\ MatchString(include, title) THEN FALSE
    ELSE LET r1 == IF exclude # Nil /\ MatchString(exclude, title) THEN TRUE ELSE FALSE
             r2 == IF include # Nil /\ ~MatchString(include, title) THEN TRUE ELSE r1
         IN  r2

needToSkipTest_ExcludeFirst(include, exclude, title, enabled) ==
    IF ~enabled THEN TRUE
    ELSE IF exclude # Nil /\ MatchString(exclude, title) THEN TRUE
    ELSE IF include # Nil /\ ~MatchString(include, title) THEN TRUE
    ELSE FALSE

needToSkipTest(include, exclude, title, enabled) ==
    IF ~enabled THEN TRUE
    ELSE IF include # Nil /\ MatchString(include, title) THEN FALSE
    ELSE LET r1 == IF exclude # Nil /\ MatchString(exclude, title) THEN TRUE ELSE FALSE
             r2 == IF include # Nil /\ ~MatchString(include, title) THEN TRUE ELSE r1
         IN  r2

overriddenTestResult_PassFirst(id) ==
    IF ForcedPass(id) THEN "ForcePass"
    ELSE IF ForcedFail(id) THEN "ForceFail"
    ELSE IF ForcedIgnore(id) THEN "Ignored"
    ELSE "Failed"

overriddenTestResult_Never(id) == "Failed"

overriddenTestResult(id) ==
    IF ForcedIgnore(id) THEN "Ignored"
    ELSE IF ForcedFail(id) THEN "ForceFail"
    ELSE IF ForcedPass(id) THEN "ForcePass"
    ELSE "Failed"

(* test.Input: which of the three request forms are set. *)
Inputs == [Data : BOOLEAN, EncodedRequest : BOOLEAN, RAWRequest : BOOLEAN]

NoInput == [Data |-> FALSE, EncodedRequest |-> FALSE, RAWRequest |-> FALSE]

(* The global overrides replace Port, DestAddr, Protocol and the Host      *)
(* header only; the three request forms pass through unchanged.            *)
applyInputOverride(testRequest) ==
    [Data |-> testRequest.Data,
     EncodedRequest |-> testRequest.EncodedRequest,
     RAWRequest |-> testRequest.RAWRequest]

checkTestSanity_DataPairsOnly(testRequest) ==
    \/ (testRequest.Data /\ testRequest.EncodedRequest)
    \/ (testRequest.Data /\ testRequest.RAWRequest)

checkTestSanity(testRequest) ==
    \/ (testRequest.Data /\ testRequest.EncodedRequest)
    \/ (testRequest.Data /\ testRequest.RAWRequest)
    \/ (testRequest.EncodedRequest /\ testRequest.RAWRequest)

----------------------------------------------------------------------------
(* The check utility (package check) as checkResult uses it.  c is the     *)
(* check: its expected output, whether cloud mode is on, and the log       *)
(* window between the stage's markers (the fragments it contains).         *)

Outputs ==
    [ExpectError : BOOLEAN,
     Status : SUBSET StatusCodes,
     ResponseContains : {""} \cup Fragments,
     LogContains : {""} \cup Fragments,
     NoLogContains : {""} \cup Fragments]

(* A response: its parsed status code and the fragments its body contains. *)
(* NilResponse stands for the nil *Response.                               *)
NilResponse == [StatusCode |-> 0, Body |-> {}]
Responses == {NilResponse} \cup [StatusCode : StatusCodes, Body : SUBSET Fragments]

Checks == [expected : Outputs, cloud : BOOLEAN, log : SUBSET Fragments]

Contains(text, fragment) == fragment \in text

AssertExpectError(c, err) == c.expected.ExpectError /\ err # Nil
CloudMode(c) == c.cloud
SetCloudMode(c) ==
    [c EXCEPT !.expected.LogContains = "", !.expected.NoLogContains = ""]
AssertStatus(c, status) == status \in c.expected.Status
AssertResponseContains(c, body) ==
    c.expected.ResponseContains # "" /\ Contains(body, c.expected.ResponseContains)
AssertLogContains(c) ==
    c.expected.LogContains # "" /\ Contains(c.log, c.expected.LogContains)
AssertNoLogContains(c) ==
    c.expected.NoLogContains # "" /\ ~Contains(c.log, c.expected.NoLogContains)

(* checkResult returns the result and, for the record, the assertions it   *)
(* called, in order.                                                       *)
checkResult_ErrorFails(c0, response, responseError) ==
    IF responseError # Nil
    THEN [result |-> "Failed", calls |-> <<"ExpectError">>]
    ELSE [result |-> "Success", calls |-> <<>>]

checkResult_BodyFirst(c0, response, responseError) ==
    IF responseError # Nil /\ AssertExpectError(c0, responseError)
    THEN [result |-> "Success", calls |-> <<"ExpectError">>]
    ELSE IF responseError # Nil
    THEN [result |-> "Failed", calls |-> <<"ExpectError">>]
    ELSE
      LET c == IF CloudMode(c0) THEN SetCloudMode(c0) ELSE c0
          r == IF response # NilResponse THEN <<"ResponseContains">> ELSE <<>>
          s == IF response # NilResponse THEN <<"ResponseContains", "Status">> ELSE <<>>
      IN  IF response # NilResponse /\ AssertResponseContains(c, response.Body)
          THEN [result |-> "Success", calls |-> r]
          ELSE IF response # NilResponse /\ AssertStatus(c, response.StatusCode)
          THEN [result |-> "Success", calls |-> s]
          ELSE IF AssertLogContains(c)
          THEN [result |-> "Success", calls |-> s \o <<"LogContains">>]
          ELSE IF AssertNoLogContains(c)
          THEN [result |-> "Success", calls |-> s \o <<"LogContains", "NoLogContains">>]
          ELSE [result |-> "Failed", calls |-> s \o <<"LogContains", "NoLogContains">>]

checkResult(c0, response, responseError) ==
    IF responseError # Nil /\ AssertExpectError(c0, responseError)
    THEN [result |-> "Success", calls |-> <<"ExpectError">>]
    ELSE IF responseError # Nil
    THEN [result |-> "Failed", calls |-> <<"ExpectError">>]
    ELSE
      LET c == IF CloudMode(c0) THEN SetCloudMode(c0) ELSE c0
          r == IF response # NilResponse THEN <<"Status">> ELSE <<>>
          s == IF response # NilResponse THEN <<"Status", "ResponseContains">> ELSE <<>>
      IN  IF response # NilResponse /\ AssertStatus(c, response.StatusCode)
          THEN [result |-> "Success", calls |-> r]
          ELSE IF response # NilResponse /\ AssertResponseContains(c, response.Body)
          THEN [result |-> "Success", calls |-> s]
          ELSE IF AssertLogContains(c)
          THEN [result |-> "Success", calls |-> s \o <<"LogContains">>]
          ELSE IF AssertNoLogContains(c)
          THEN [result |-> "Success", calls |-> s \o <<"LogContains", "NoLogContains">>]
          ELSE [result |-> "Failed", calls |-> s \o <<"LogContains", "NoLogContains">>]

----------------------------------------------------------------------------
(* Stats and the run context. *)

ZeroStats ==
    [Success |-> 0, Failed |-> 0, Skipped |-> 0, Ignored |-> 0,
     ForceFail |-> 0, ForcePass |-> 0, Run |-> 0, RunTime |-> 0]

addResultToStats(result, stats) ==
    IF result \in TestResults THEN [stats EXCEPT ![result] = @ + 1] ELSE stats

(* RunStage's forced-result path, line 124. *)
recordForced_CountsRun(stats, overridden) ==
    [addResultToStats(overridden, stats) EXCEPT !.Run = @ + 1]

recordForced(stats, overridden) == addResultToStats(overridden, stats)

(* RunStage's normal path, lines 180-188. *)
recordResult_NoAdd(stats, testResult, stageTime) ==
    [stats EXCEPT !.Run = @ + 1, !.RunTime = @ + stageTime]

recordResult(stats, testResult, stageTime) ==
    [addResultToStats(testResult, stats)
       EXCEPT !.Run = @ + 1, !.RunTime = @ + stageTime]

(* runContext.Result = testResult, line 182. *)
setResult_Never(ctx, testResult) == ctx

setResult(ctx, testResult) == [ctx EXCEPT !.Result = testResult]

(* TestRunContext{}: the zero value. *)
EmptyContext == [Stats |-> ZeroStats, Result |-> "unset"]

ZeroHist ==
    [skippedCases |-> 0, skippedStages |-> 0,
     stageCalls |-> 0, stages |-> 0,
     results |-> [k \in TestResults |-> 0]]

(* done: the test cases of the test iterated so far. *)
NoTests == [read |-> 0, cases |-> 0, stages |-> 0]
NoTest == [Enabled |-> TRUE, done |-> 0]
(* skip: what needToSkipTest returned; skipped0: Stats.Skipped before. *)
NoCase == [TestTitle |-> {}, Stages |-> 0, ran |-> 0, skip |-> FALSE,
           skipped0 |-> 0]
ZeroIO == [conns |-> 0, reqs |-> 0, checks |-> 0, marks |-> 0]
NoStage ==
    [stageID |-> 0, rejected |-> NoInput, ExpectError |-> FALSE, overridden |-> Nil,
     StartMarker |-> Nil, EndMarker |-> Nil, responseErr |-> Nil,
     result |-> Nil, runTime0 |-> 0, io |-> ZeroIO]
(* stageID: the identifier the invocation was given, once it has begun. *)
NoMark ==
    [stageID |-> 0, attempt |-> 0, probes |-> 0, queries |-> 0, hits |-> 0,
     returned |-> FALSE, marker |-> Nil, err |-> Nil, errFile |-> ""]
NoRet == [ctx |-> EmptyContext, err |-> Nil]
NoCall == [name |-> "none"]
NoOut == [result |-> Nil, calls |-> <<>>]

Configs ==
    [RunMode : {DefaultRunMode, CloudRunMode},
     LogFile : {"", "waf.log"},
     Include : {Nil, "include"},
     Exclude : {Nil, "exclude"}]

notRunningInCloudMode_Always == TRUE

notRunningInCloudMode == cfg.RunMode # CloudRunMode

Idle ==
    /\ logLines = [FileName |-> "", logFile |-> "nil"]
    /\ closes = 0
    /\ runContext = EmptyContext
    /\ ftwTest = NoTest
    /\ testCase = NoCase
    /\ stage = NoStage
    /\ mf = NoMark
    /\ hist = ZeroHist
    /\ ret = NoRet

Init ==
    /\ pc = "Run"
    /\ cfg \in Configs
    /\ tests = NoTests
    /\ Idle
    /\ call = NoCall
    /\ out = NoOut

Abort_GoesOn(e) ==
    /\ pc' = "Stages"
    /\ ret' = [ctx |-> EmptyContext, err |-> e]

Abort_ReturnsContext(e) ==
    /\ pc' = "done"
    /\ ret' = [ctx |-> runContext, err |-> e]

(* Run returns TestRunContext{} and the error; nothing is deferred yet. *)
Abort(e) ==
    /\ pc' = "done"
    /\ ret' = [ctx |-> EmptyContext, err |-> e]

----------------------------------------------------------------------------
(* Run *)

(* waflog.NewFTWLogLines(WithLogFile(config.FTWConfig.LogFile)) *)
NewFTWLogLines ==
    /\ pc = "Run"
    /\ UNCHANGED <<cfg, closes, runContext, tests, ftwTest, testCase, stage, mf,
                   hist, call, out>>
    /\ LET name == cfg.LogFile
           opens == cfg.RunMode = DefaultRunMode /\ name # ""
       IN  \/ /\ opens                       \* os.Open fails
              /\ logLines' = [FileName |-> name, logFile |-> "nil"]
              /\ Abort("cannot open log file")
           \/ /\ opens                       \* os.Open succeeds
              /\ logLines' = [FileName |-> name, logFile |-> "open"]
              /\ pc' = "NewClient"
              /\ UNCHANGED ret
           \/ /\ ~opens
              /\ logLines' = [FileName |-> name, logFile |-> "nil"]
              /\ IF cfg.RunMode = DefaultRunMode
                 THEN Abort("no log file supplied")
                 ELSE pc' = "NewClient" /\ UNCHANGED ret

(* ftwhttp.NewClient(conf) and the construction of runContext *)
NewClient ==
    /\ pc = "NewClient"
    /\ UNCHANGED <<cfg, logLines, closes, tests, ftwTest, testCase, stage, mf,
                   hist, call, out>>
    /\ \E failed \in BOOLEAN :
          IF failed
          THEN Abort("NewClient") /\ UNCHANGED runContext
          ELSE /\ runContext' = [Stats |-> ZeroStats, Result |-> "unset"]
               /\ pc' = "Tests"
               /\ UNCHANGED ret

(* FTWLogLines.Cleanup *)
Cleanup(ll) ==
    IF ll.logFile # "nil" THEN [ll EXCEPT !.logFile = "closed"] ELSE ll

CleanupCloses(ll) == IF ll.logFile # "nil" THEN 1 ELSE 0

(* The loop over tests is exhausted: printSummary, then the deferred       *)
(* cleanLogs runs as Run returns runContext.                               *)
RunReturn ==
    /\ pc = "Tests"
    /\ logLines' = Cleanup(logLines)
    /\ closes' = closes + CleanupCloses(logLines)
    /\ ret' = [ctx |-> runContext, err |-> Nil]
    /\ pc' = "done"
    /\ UNCHANGED <<cfg, runContext, tests, ftwTest, testCase, stage, mf, hist,
                   call, out>>

(* for _, tc := range tests: RunTest(&runContext, tc) begins *)
RunTest ==
    /\ pc = "Tests"
    /\ tests.read < MaxTests
    /\ tests' = [tests EXCEPT !.read = @ + 1]
    /\ \E enabled \in BOOLEAN :
          ftwTest' = [Enabled |-> enabled, done |-> 0]
    /\ testCase' = NoCase
    /\ stage' = NoStage
    /\ mf' = NoMark
    /\ pc' = "Cases"
    /\ UNCHANGED <<cfg, logLines, closes, runContext, hist, ret, call, out>>

(* RunTest's loop over test cases is exhausted: it returns nil, and its    *)
(* locals are gone.                                                        *)
RunTestReturn ==
    /\ pc = "Cases"
    /\ pc' = "Tests"
    /\ ftwTest' = NoTest
    /\ testCase' = NoCase
    /\ stage' = NoStage
    /\ UNCHANGED <<cfg, logLines, closes, runContext, tests, mf, hist, ret,
                   call, out>>

(* One iteration of RunTest's loop up to the loop over stages; the       *)
(* stages of a skipped test case are never iterated, n is their number.  *)
TestCase ==
    /\ pc = "Cases"
    /\ tests.cases < MaxCases
    /\ ftwTest' = [ftwTest EXCEPT !.done = @ + 1]
    /\ stage' = NoStage
    /\ mf' = NoMark
    /\ \E title \in Titles(cfg) :
          LET skip == needToSkipTest(cfg.Include, cfg.Exclude, title, ftwTest.Enabled)
              tc == [TestTitle |-> title, Stages |-> 0, ran |-> 0, skip |-> skip,
                     skipped0 |-> runContext.Stats.Skipped]
          IN  IF skip
              THEN /\ \E n \in 0..(MaxStages - tests.stages) :
                         /\ testCase' = [tc EXCEPT !.Stages = n]
                         /\ tests' = [tests EXCEPT !.cases = @ + 1,
                                                   !.stages = @ + n]
                         /\ hist' = [hist EXCEPT !.skippedCases = @ + 1,
                                                 !.skippedStages = @ + n]
                   /\ runContext' =
                         [runContext EXCEPT
                            !.Stats = addResultToStats("Skipped", @)]
                   /\ pc' = "Cases"
              ELSE /\ testCase' = tc
                   /\ tests' = [tests EXCEPT !.cases = @ + 1]
                   /\ pc' = "Stages"
                   /\ UNCHANGED <<runContext, hist>>
    /\ UNCHANGED <<cfg, logLines, closes, ret, call, out>>

(* The loop over the stages of the test case is exhausted. *)
StagesDone ==
    /\ pc = "Stages"
    /\ pc' = "Cases"
    /\ stage' = NoStage
    /\ UNCHANGED <<cfg, logLines, closes, runContext, tests, ftwTest, testCase,
                   mf, hist, ret, call, out>>

----------------------------------------------------------------------------
(* RunStage *)

(* RunStage from its entry to the first markAndFlush (or, in cloud mode,   *)
(* to the real request): overrides, sanity check, forced results.  The     *)
(* stage handed to it has the given Input and Output.ExpectError.          *)
RunStageEntry(input, expectError) ==
    /\ pc = "Stages"
    /\ tests.stages < MaxStages
    /\ tests' = [tests EXCEPT !.stages = @ + 1]
    /\ testCase' = [testCase EXCEPT !.Stages = @ + 1, !.ran = @ + 1]
    /\ mf' = NoMark
    /\ UNCHANGED <<cfg, logLines, closes, ftwTest, out>>
    /\    LET testRequest == applyInputOverride(input)
              overridden == overriddenTestResult(testCase.TestTitle)
              st == [NoStage EXCEPT !.stageID = hist.stageCalls + 1,
                                    !.ExpectError = expectError,
                                    !.runTime0 = runContext.Stats.RunTime]
          IN  IF checkTestSanity(testRequest)
              THEN /\ stage' = [st EXCEPT !.rejected = testRequest]
                   /\ hist' = [hist EXCEPT !.stageCalls = @ + 1]
                   /\ Abort("errBadTestRequest")
                   /\ UNCHANGED runContext
              ELSE IF overridden # "Failed"
              THEN /\ stage' = [st EXCEPT !.overridden = overridden,
                                          !.result = overridden]
                   /\ runContext' =
                         [runContext EXCEPT
                            !.Stats = recordForced(@, overridden)]
                   /\ hist' = [hist EXCEPT !.stageCalls = @ + 1,
                                           !.stages = @ + 1,
                                           !.results[overridden] = @ + 1]
                   /\ pc' = "Stages"
                   /\ UNCHANGED ret
              ELSE /\ stage' = [st EXCEPT !.overridden = overridden]
                   /\ hist' = [hist EXCEPT !.stageCalls = @ + 1]
                   /\ pc' = IF notRunningInCloudMode THEN "markStart" ELSE "request"
                   /\ UNCHANGED <<runContext, ret>>

(* RunStage(runContext, ftwCheck, testCase, stage.Stage), line 92 *)
RunStage ==
    \E input \in Inputs, expectError \in BOOLEAN :
       RunStageEntry(input, expectError) /\ UNCHANGED call

(* The marker line CheckLogForMarker returns for the stage's identifier. *)
MarkerLine == "marker line"

AfterMark_NeverTolerates(m) ==
    /\ mf' = m
    /\ IF m.err # Nil
       THEN /\ Abort(IF pc = "markStart" THEN "failed to find start marker"
                                         ELSE "failed to find end marker")
            /\ stage' = [stage EXCEPT !.io.marks = @ + 1]
       ELSE /\ stage' = IF pc = "markStart"
                        THEN [stage EXCEPT !.StartMarker = m.marker, !.io.marks = @ + 1]
                        ELSE [stage EXCEPT !.EndMarker = m.marker, !.io.marks = @ + 1]
            /\ pc' = IF pc = "markStart" THEN "request" ELSE "check"
            /\ UNCHANGED ret

AfterMark_EvaluatesAtOnce(m) ==
    /\ mf' = m
    /\ IF m.err # Nil /\ ~stage.ExpectError
       THEN /\ Abort(IF pc = "markStart" THEN "failed to find start marker"
                                         ELSE "failed to find end marker")
            /\ stage' = [stage EXCEPT !.io.marks = @ + 1]
       ELSE /\ stage' = IF pc = "markStart"
                        THEN [stage EXCEPT !.StartMarker = m.marker, !.io.marks = @ + 1]
                        ELSE [stage EXCEPT !.EndMarker = m.marker, !.io.marks = @ + 1]
            /\ pc' = "check"
            /\ UNCHANGED ret

(* What RunStage does with the value markAndFlush returned: lines 140-143  *)
(* for the start marker, 164-168 for the end marker.                       *)
AfterMark(m) ==
    /\ mf' = m
    /\ IF m.err # Nil /\ ~stage.ExpectError
       THEN /\ Abort(IF pc = "markStart" THEN "failed to find start marker"
                                         ELSE "failed to find end marker")
            /\ stage' = [stage EXCEPT !.io.marks = @ + 1]
       ELSE /\ stage' = IF pc = "markStart"
                        THEN [stage EXCEPT !.StartMarker = m.marker, !.io.marks = @ + 1]
                        ELSE [stage EXCEPT !.EndMarker = m.marker, !.io.marks = @ + 1]
            /\ pc' = IF pc = "markStart" THEN "request" ELSE "check"
            /\ UNCHANGED ret

(* errFile is the log file the error message names, if it names one. *)
Returned(m, marker, err, errFile) ==
    [m EXCEPT !.returned = TRUE, !.marker = marker, !.err = err,
              !.errFile = errFile]

markAndFlush_RetriesErrors ==
    /\ pc \in {"markStart", "markEnd"}
    /\ mf.attempt < MaxAttempts
    /\ UNCHANGED <<cfg, logLines, closes, runContext, tests, ftwTest, testCase,
                   hist, call, out>>
    /\ LET m1 == [mf EXCEPT !.stageID = stage.stageID, !.attempt = @ + 1]
           m2 == [m1 EXCEPT !.probes = @ + 1]
           m3 == [m2 EXCEPT !.queries = @ + 1]
           m4 == [m3 EXCEPT !.hits = @ + 1]
       IN  \/ IF m1.attempt < MaxAttempts
              THEN mf' = m1 /\ UNCHANGED <<pc, stage, ret>>
              ELSE AfterMark(Returned(m1, Nil, "can't connect to destination", ""))
           \/ IF m2.attempt < MaxAttempts
              THEN mf' = m2 /\ UNCHANGED <<pc, stage, ret>>
              ELSE AfterMark(Returned(m2, Nil, "failed sending request", ""))
           \/ AfterMark(Returned(m4, MarkerLine, Nil, ""))
           \/ IF m3.attempt < MaxAttempts
              THEN mf' = m3 /\ UNCHANGED <<pc, stage, ret>>
              ELSE AfterMark(Returned(m3, Nil, "can't find log marker",
                                      logLines.FileName))

(* One iteration of markAndFlush's loop: connection, probe, log query.     *)
(* When the iteration returns, or is the last one, the action goes on to   *)
(* what RunStage does with the returned value.                             *)
markAndFlush ==
    /\ pc \in {"markStart", "markEnd"}
    /\ mf.attempt < MaxAttempts
    /\ UNCHANGED <<cfg, logLines, closes, runContext, tests, ftwTest, testCase,
                   hist, call, out>>
    /\ LET m1 == [mf EXCEPT !.stageID = stage.stageID, !.attempt = @ + 1]
           m2 == [m1 EXCEPT !.probes = @ + 1]
           m3 == [m2 EXCEPT !.queries = @ + 1]
           m4 == [m3 EXCEPT !.hits = @ + 1]
       IN  \/ AfterMark(Returned(m1, Nil, "can't connect to destination", ""))
           \/ AfterMark(Returned(m2, Nil, "failed sending request", ""))
           \/ AfterMark(Returned(m4, MarkerLine, Nil, ""))
           \/ IF m3.attempt < MaxAttempts
              THEN mf' = m3 /\ UNCHANGED <<pc, stage, ret>>
              ELSE AfterMark(Returned(m3, Nil, "can't find log marker",
                                      logLines.FileName))

Request_NeverAborts ==
    /\ pc = "request"
    /\ UNCHANGED <<cfg, logLines, closes, runContext, tests, ftwTest, testCase,
                   hist, call, out>>
    /\ \E sendFailed \in BOOLEAN :
          LET responseErr == IF sendFailed THEN "failed sending request" ELSE Nil
          IN  /\ stage' = [stage EXCEPT !.io.conns = @ + 1, !.io.reqs = @ + 1,
                                        !.responseErr = responseErr]
              /\ pc' = IF notRunningInCloudMode THEN "markEnd" ELSE "check"
              /\ mf' = NoMark
              /\ UNCHANGED ret

(* The real request: NewConnection, Do, and the two error exits,         *)
(* lines 146-160.                                                          *)
Request ==
    /\ pc = "request"
    /\ UNCHANGED <<cfg, logLines, closes, runContext, tests, ftwTest, testCase,
                   hist, call, out>>
    /\ \E connFailed \in BOOLEAN, sendFailed \in BOOLEAN :
          IF connFailed /\ ~stage.ExpectError
          THEN /\ stage' = [stage EXCEPT !.io.conns = @ + 1]
               /\ Abort("can't connect to destination")
               /\ UNCHANGED mf
          ELSE LET responseErr == IF sendFailed THEN "failed sending request" ELSE Nil
                   st == [stage EXCEPT !.io.conns = @ + 1, !.io.reqs = @ + 1,
                                       !.responseErr = responseErr]
               IN  /\ stage' = st
                   /\ IF responseErr # Nil /\ ~stage.ExpectError
                      THEN Abort("failed sending request to destination")
                           /\ UNCHANGED mf
                      ELSE /\ pc' = IF notRunningInCloudMode THEN "markEnd" ELSE "check"
                           /\ mf' = NoMark
                           /\ UNCHANGED ret

(* The expected outputs the stages of a run are drawn from: a stage that   *)
(* expects a blocking status or a log entry.                               *)
StageOutputs ==
    [ExpectError : BOOLEAN,
     Status : {{403}},
     ResponseContains : {""},
     LogContains : Fragments,
     NoLogContains : {""}]

(* The responses Do returns in a run: as nothing is expected of the body,  *)
(* its content is left out.                                                *)
StageResponses == {NilResponse} \cup [StatusCode : StatusCodes, Body : {{}}]

(* The log window a check can see: nothing in cloud mode. *)
LogWindows == IF notRunningInCloudMode THEN SUBSET Fragments ELSE {{}}

(* SetExpectTestOutput, checkResult and the recording of the result,       *)
(* lines 171-190.  The rest of the expected output, the response received  *)
(* by Do and the log window are first read here.                           *)
Check ==
    /\ pc = "check"
    /\ mf' = NoMark
    /\ UNCHANGED <<cfg, logLines, closes, tests, ftwTest, testCase, ret,
                   call, out>>
    /\ \E expectedOutput \in {o \in StageOutputs :
                                   o.ExpectError = stage.ExpectError},
          response \in {r \in StageResponses :
                           (r = NilResponse) <=> (stage.responseErr # Nil)},
          log \in LogWindows, stageTime \in 1..MaxStageTime :
          /\ LET ftwCheck == [expected |-> expectedOutput,
                              cloud |-> ~notRunningInCloudMode,
                              log |-> log]
                 testResult == checkResult(ftwCheck, response, stage.responseErr).result
             IN  /\ stage' = [stage EXCEPT !.result = testResult, !.io.checks = @ + 1]
                 /\ runContext' =
                       setResult([runContext EXCEPT
                                    !.Stats = recordResult(@, testResult, stageTime)],
                                 testResult)
                 /\ hist' = [hist EXCEPT !.stages = @ + 1,
                                         !.results[testResult] = @ + 1]
                 /\ pc' = "Stages"

Done == pc = "done"

Next ==
    \/ NewFTWLogLines
    \/ NewClient
    \/ RunTest
    \/ RunTestReturn
    \/ TestCase
    \/ StagesDone
    \/ RunStage
    \/ markAndFlush
    \/ Request
    \/ Check
    \/ RunReturn

Spec == Init /\ [][Next]_vars

----------------------------------------------------------------------------
(* The run with the argument of each RunStage call on record: followed to  *)
(* its end in cloud mode, and up to the first marker probe of a stage in   *)
(* standard mode.                                                          *)

RunStageCalled ==
    \E input \in Inputs, expectError \in BOOLEAN :
       /\ RunStageEntry(input, expectError)
       /\ call' = [name |-> "RunStage", Input |-> input]

NextRunStage ==
    \/ NewFTWLogLines
    \/ NewClient
    \/ RunTest
    \/ RunTestReturn
    \/ TestCase
    \/ StagesDone
    \/ RunStageCalled
    \/ Request
    \/ Check
    \/ RunReturn

SpecRunStage == Init /\ [][NextRunStage]_vars

----------------------------------------------------------------------------
(* checkResult on its own: every check, response and error it can be      *)
(* called with.                                                            *)

CheckCalls ==
    [c : Checks, response : Responses, responseError : {Nil, "transport error"}]

InitCheckResult ==
    /\ pc = "checkResult"
    /\ cfg = [RunMode |-> CloudRunMode, LogFile |-> "", Include |-> Nil,
              Exclude |-> Nil]
    /\ tests = NoTests
    /\ Idle
    /\ call \in CheckCalls
    /\ out = NoOut

ApplyCheckResult ==
    /\ pc = "checkResult"
    /\ out' = checkResult(call.c, call.response, call.responseError)
    /\ pc' = "returned"
    /\ UNCHANGED <<cfg, logLines, closes, runContext, tests, ftwTest, testCase,
                   stage, mf, hist, ret, call>>

NextCheckResult == ApplyCheckResult

SpecCheckResult == InitCheckResult /\ [][NextCheckResult]_vars

----------------------------------------------------------------------------
(* C1 *)

(* The check as the assertions see it, and the six signals. *)
CallCheck == IF call.c.cloud THEN SetCloudMode(call.c) ELSE call.c
SigError == call.responseError # Nil
SigExpectError == call.c.expected.ExpectError
SigStatus ==
    call.response # NilResponse /\ AssertStatus(CallCheck, call.response.StatusCode)
SigBody ==
    call.response # NilResponse /\ AssertResponseContains(CallCheck, call.response.Body)
SigLog == AssertLogContains(CallCheck)
SigNoLog == AssertNoLogContains(CallCheck)

(* The assertions of the chain in the order the claim gives, each with     *)
(* whether it is satisfied; status and body apply to a response only.      *)
Chain ==
    (IF call.response # NilResponse
     THEN << <<"Status", SigStatus>>, <<"ResponseContains", SigBody>> >>
     ELSE <<>>)
    \o << <<"LogContains", SigLog>>, <<"NoLogContains", SigNoLog>> >>

(* The chain up to and including its first satisfied assertion. *)
RECURSIVE UpToFirst(_)
UpToFirst(ch) ==
    IF ch = <<>> THEN <<>>
    ELSE IF ch[1][2] THEN <<ch[1][1]>>
    ELSE <<ch[1][1]>> \o UpToFirst(Tail(ch))

(* C1: checkResult is a strict precedence chain.  The result is Success    *)
(* exactly when (error and ExpectError) or (no error and one of status,    *)
(* body, log-contains, no-log-contains holds), Failed otherwise; the       *)
(* signals are evaluated in the order status, body, log-contains,          *)
(* no-log-contains and evaluation stops at the first satisfied one.        *)
C1_PrecedenceChain ==
    pc = "returned" =>
       /\ out.result \in {"Success", "Failed"}
       /\ (out.result = "Success") <=>
             \/ (SigError /\ SigExpectError)
             \/ (~SigError /\ (SigStatus \/ SigBody \/ SigLog \/ SigNoLog))
       /\ ~SigError => out.calls = UpToFirst(Chain)

(* A matching status with a body that does not match: Success, and the     *)
(* body check was not reached.                                             *)
C1_Witness ==
    /\ pc = "returned"
    /\ ~SigError /\ SigStatus /\ ~SigBody
    /\ call.c.expected.ResponseContains # ""
    /\ out = [result |-> "Success", calls |-> <<"Status">>]

----------------------------------------------------------------------------
(* Vocabulary of the claims about a run. *)

InStage == pc \in {"markStart", "request", "markEnd", "check"}
InMarkLoop == pc \in {"markStart", "markEnd"}
MarkerNotFound == "can't find log marker"
Stats == runContext.Stats
KindsSum ==
    Stats.Success + Stats.Failed + Stats.Skipped + Stats.Ignored
    + Stats.ForceFail + Stats.ForcePass
ForcedKinds == {"Ignored", "ForceFail", "ForcePass"}
(* A stage of the current test case was handed to RunStage, and RunStage   *)
(* did not reject its input.                                               *)
StageAccepted == stage.stageID # 0 /\ ret.err # "errBadTestRequest"

----------------------------------------------------------------------------
(* C2 *)

(* C2: one invocation of markAndFlush sends at most 20 probes; the first   *)
(* log query that finds the identifier ends it with the matched line and   *)
(* no further probe; if none of 20 queries finds it, it fails with the     *)
(* marker-not-found error naming LogLines.FileName.                        *)
C2_ProbeBudget ==
    /\ mf.probes <= 20
    /\ mf.queries <= mf.probes
    /\ mf.returned => ~InMarkLoop
    /\ mf.hits > 0 =>
          /\ mf.hits = 1 /\ mf.returned
          /\ mf.marker = MarkerLine /\ mf.err = Nil
          /\ mf.queries = mf.probes
    /\ (mf.returned /\ mf.marker # Nil) => mf.hits = 1
    /\ (mf.err = MarkerNotFound) <=>
          (mf.returned /\ mf.hits = 0 /\ mf.queries = 20)
    /\ (mf.err = MarkerNotFound) =>
          (mf.probes = 20 /\ mf.errFile = logLines.FileName /\ mf.errFile # "")

(* The start marker is never observed and the stage aborts. *)
C2_Witness ==
    /\ pc = "done"
    /\ ret.err = "failed to find start marker"
    /\ mf.err = MarkerNotFound
    /\ mf.probes = 20 /\ mf.queries = 20
    /\ mf.errFile = "waf.log"

----------------------------------------------------------------------------
(* C3 *)

(* C3: when Run has returned and had opened the log file, the file has     *)
(* been closed exactly once, however the run ended.                        *)
C3_LogClosedOnce ==
    (pc = "done" /\ logLines.logFile # "nil") =>
       (closes = 1 /\ logLines.logFile = "closed")

----------------------------------------------------------------------------
(* C4 *)

(* C4 as claimed: Stats.Run is the number of stages recorded as Success,   *)
(* Failed, ForceFail or ForcePass.                                         *)
C4_RunCountsForced ==
    Stats.Run = hist.results["Success"] + hist.results["Failed"]
                + hist.results["ForceFail"] + hist.results["ForcePass"]

(* C4 as amended: Stats.Run is the number of stages recorded as Success    *)
(* or Failed; stages recorded as Skipped, Ignored, ForceFail or ForcePass  *)
(* are not counted.                                                        *)
C4_RunCountsExecuted ==
    Stats.Run = hist.results["Success"] + hist.results["Failed"]

C4_Witness ==
    /\ hist.results["Success"] = 1
    /\ hist.results["ForcePass"] >= 1
    /\ Stats.Run = 1

----------------------------------------------------------------------------
(* C5 *)

(* C5 as claimed: the per-kind counts sum to the number of stages          *)
(* processed, every stage of a skipped test case included.                 *)
C5_KindsSumStages == KindsSum = hist.stages + hist.skippedStages

(* C5 as amended: the per-kind counts sum to the number of skipped test    *)
(* cases plus the number of stages for which RunStage returned no error.   *)
C5_KindsSumRecorded ==
    /\ KindsSum = hist.stages + hist.skippedCases
    /\ Stats.Skipped = hist.skippedCases
    /\ \A k \in TestResults \ {"Skipped"} : Stats[k] = hist.results[k]

C5_Witness ==
    /\ hist.skippedCases = 1 /\ hist.skippedStages = 2
    /\ tests.cases = 2
    /\ KindsSum = 1

----------------------------------------------------------------------------
(* C6 *)

(* C6: a well-formed stage whose test id has a forced override is          *)
(* recorded with the forced result and without network activity: no        *)
(* connection, probe, request or log query, no checkResult, and            *)
(* Stats.RunTime as it was when the stage began.                           *)
C6_ForcedNoNetwork ==
    (StageAccepted /\ (\/ ForcedIgnore(testCase.TestTitle)
                       \/ ForcedFail(testCase.TestTitle)
                       \/ ForcedPass(testCase.TestTitle))) =>
       /\ stage.result \in ForcedKinds
       /\ stage.io = ZeroIO
       /\ mf = NoMark
       /\ ~InStage
       /\ Stats.RunTime = stage.runTime0
       /\ ret.err = Nil

C6_Witness ==
    /\ StageAccepted
    /\ ForcedFail(testCase.TestTitle)
    /\ stage.result = "ForceFail"
    /\ Stats.ForceFail = 1
    /\ Stats.Success = 1 /\ Stats.RunTime > 0

----------------------------------------------------------------------------
(* C7 *)

(* C7: the forced result is decided ignore > fail > pass: Ignored if the   *)
(* id is configured for forced ignore, else ForceFail if for forced fail,  *)
(* else ForcePass if for forced pass; otherwise there is no override and   *)
(* the normal execution path runs.                                         *)
C7_ForcedPrecedence ==
    StageAccepted =>
       LET id == testCase.TestTitle IN
       /\ "ignore" \in id => stage.result = "Ignored"
       /\ ("ignore" \notin id /\ "forcefail" \in id) => stage.result = "ForceFail"
       /\ ("ignore" \notin id /\ "forcefail" \notin id /\ "forcepass" \in id) =>
             stage.result = "ForcePass"
       /\ (id \cap {"ignore", "forcefail", "forcepass"} = {}) =>
             /\ stage.result \notin ForcedKinds
             /\ InStage \/ stage.io # ZeroIO

C7_Witness ==
    /\ StageAccepted
    /\ {"ignore", "forcefail", "forcepass"} \subseteq testCase.TestTitle
    /\ stage.result = "Ignored"
    /\ Stats.Ignored = 1 /\ Stats.ForceFail = 0 /\ Stats.ForcePass = 0

----------------------------------------------------------------------------
(* C8 *)

(* C8: every test case of a disabled test is skipped whatever the filters  *)
(* say: it adds one to Stats.Skipped and none of its stages reaches        *)
(* RunStage, so nothing is sent for it.                                    *)
C8_DisabledSkipped ==
    (~ftwTest.Enabled /\ ftwTest.done > 0) =>
       /\ testCase.skip
       /\ Stats.Skipped = testCase.skipped0 + 1
       /\ testCase.ran = 0
       /\ stage = NoStage /\ mf = NoMark
       /\ ~InStage

C8_Witness ==
    /\ ~ftwTest.Enabled /\ ftwTest.done > 0
    /\ cfg.Include # Nil /\ MatchString(cfg.Include, testCase.TestTitle)
    /\ testCase.Stages > 0
    /\ Stats.Skipped = 1

----------------------------------------------------------------------------
(* C9 *)

(* C9: for an enabled test case, a title matching the inclusion filter is  *)
(* executed even if the exclusion filter matches too; with an inclusion    *)
(* filter the title does not match it is skipped; with no inclusion        *)
(* filter it is skipped exactly when an exclusion filter is configured     *)
(* and matches; with neither filter it is executed.                        *)
C9_FilterPrecedence ==
    (ftwTest.Enabled /\ ftwTest.done > 0) =>
       LET title == testCase.TestTitle
           included == cfg.Include # Nil /\ "include" \in title
           excluded == cfg.Exclude # Nil /\ "exclude" \in title
           skipped == /\ Stats.Skipped = testCase.skipped0 + 1
                      /\ stage = NoStage /\ testCase.ran = 0
                      /\ pc \in {"Cases", "Tests", "done"}
           executed == /\ Stats.Skipped = testCase.skipped0
                       /\ testCase.ran = testCase.Stages
                       /\ stage # NoStage => testCase.ran > 0
       IN  /\ testCase.skip <=> skipped
           /\ ~testCase.skip <=> executed
           /\ included => executed
           /\ (cfg.Include # Nil /\ ~included) => skipped
           /\ cfg.Include = Nil => (skipped <=> excluded)
           /\ (cfg.Include = Nil /\ cfg.Exclude = Nil) => executed

C9_Witness ==
    /\ ftwTest.Enabled /\ ftwTest.done > 0
    /\ {"include", "exclude"} \subseteq testCase.TestTitle
    /\ ~testCase.skip
    /\ InStage

----------------------------------------------------------------------------
(* C10 *)

(* The markAndFlush for the start marker has just returned an error. *)
StartMarkerFailed == stage.io.marks = 1 /\ mf.returned /\ mf.err # Nil

(* C10: in standard mode a failed start-marker acquisition aborts the      *)
(* stage, before the real request and with no result recorded, exactly     *)
(* when ExpectError is false; when it is true the start marker stays       *)
(* empty, the real request is still attempted, and checkResult classifies  *)
(* that request's outcome.                                                 *)
C10_StartMarkerFailure ==
    notRunningInCloudMode =>
       /\ StartMarkerFailed =>
             /\ stage.io.reqs = 0 /\ stage.io.conns = 0
             /\ stage.StartMarker = Nil
             /\ IF stage.ExpectError
                THEN pc = "request" /\ ret.err = Nil
                ELSE /\ pc = "done"
                     /\ ret.err = "failed to find start marker"
                     /\ stage.result = Nil /\ stage.io.checks = 0
                     /\ hist.stages = hist.stageCalls - 1
                     /\ KindsSum = hist.stages + hist.skippedCases
       /\ ret.err = "failed to find start marker" =>
             (StartMarkerFailed /\ ~stage.ExpectError)
       /\ (stage.io.marks >= 1 /\ stage.StartMarker = Nil
             /\ (pc \in {"markEnd", "check"} \/ stage.io.checks = 1)) =>
             /\ stage.ExpectError
             /\ stage.io.reqs = 1
       /\ (stage.io.marks >= 1 /\ stage.StartMarker = Nil /\ stage.io.checks = 1) =>
             /\ stage.result \in {"Success", "Failed"}
             /\ stage.responseErr # Nil => stage.result = "Success"

(* The start marker was not found, the error was expected, the real        *)
(* request got a response, and the stage is classified Failed.             *)
C10_Witness ==
    /\ notRunningInCloudMode
    /\ stage.ExpectError
    /\ stage.io.marks = 2 /\ stage.StartMarker = Nil
    /\ stage.io.reqs = 1 /\ stage.responseErr = Nil
    /\ stage.io.checks = 1 /\ stage.result = "Failed"
    /\ Stats.Failed = 1

----------------------------------------------------------------------------
(* C11 *)

(* The errors RunStage returns. *)
StageErrors ==
    {"errBadTestRequest", "failed to find start marker",
     "can't connect to destination", "failed sending request to destination",
     "failed to find end marker"}

(* C11: a step in which RunStage fails ends the run: Run has returned, and *)
(* returned RunStage's error; from then on nothing happens any more, so no *)
(* later stage, test case or test is executed and nothing is sent.         *)
C11_AbortStopsRun ==
    [][/\ ((pc = "Stages" \/ InStage) /\ pc' \notin {"Stages", "Cases"}
              /\ ~InStage')
          => (pc' = "done" /\ ret'.err \in StageErrors)
       /\ ret'.err # Nil => pc' = "done"
       /\ ret.err # Nil => UNCHANGED vars]_vars

(* The second stage of a run fails to send its request with no error       *)
(* expected, after a first stage was recorded and with test cases to go.   *)
C11_Witness ==
    /\ pc = "done"
    /\ ret.err = "failed sending request to destination"
    /\ hist.stages = 1 /\ hist.stageCalls = 2
    /\ tests.cases < MaxCases
    /\ stage.io.reqs = 1 /\ stage.io.checks = 0

----------------------------------------------------------------------------
(* C12 *)

(* The number of request forms an input sets. *)
Forms(input) ==
    Cardinality({f \in {"Data", "EncodedRequest", "RAWRequest"} : input[f]})

(* C12: a call of RunStage fails with the bad-test-request error exactly   *)
(* when the stage's input sets more than one of the three request forms;   *)
(* it then ends the run before the forced-result lookup and before any     *)
(* network activity: nothing is recorded in Stats, nothing is sent.        *)
C12_BadTestRequest ==
    [][hist'.stageCalls = hist.stageCalls + 1 =>
          LET bad == Forms(call'.Input) > 1
          IN  /\ bad <=> (ret'.err = "errBadTestRequest")
              /\ bad =>
                    /\ pc' = "done"
                    /\ stage'.rejected = call'.Input
                    /\ stage'.overridden = Nil /\ stage'.result = Nil
                    /\ stage'.io = ZeroIO /\ mf' = NoMark
                    /\ runContext' = runContext
                    /\ hist'.stages = hist.stages
                    /\ hist'.results = hist.results
              /\ ~bad => (ret'.err = Nil /\ pc' # "done")]_vars

(* A stage of a test case with a forced pass sets an encoded and a raw     *)
(* request: the run ends with the error, after the first stage of the      *)
(* test case was recorded as ForcePass.                                    *)
C12_Witness ==
    /\ pc = "done"
    /\ ret.err = "errBadTestRequest"
    /\ call = [name |-> "RunStage",
               Input |-> [Data |-> FALSE, EncodedRequest |-> TRUE,
                          RAWRequest |-> TRUE]]
    /\ ForcedPass(testCase.TestTitle) /\ ~ForcedIgnore(testCase.TestTitle)
    /\ ~ForcedFail(testCase.TestTitle)
    /\ Stats.ForcePass = 1 /\ KindsSum = 1
    /\ stage.io = ZeroIO

----------------------------------------------------------------------------
(* C13 *)

(* C13: no step of a stage that expects an error ends the run, whatever    *)
(* fails on the way; and when the real request of such a stage has failed, *)
(* the evaluation records one Success, adds one to Stats.Run, returns no   *)
(* error, and the run goes on with the loop over the stages.               *)
C13_ExpectedErrorSuccess ==
    [][/\ (InStage /\ stage.ExpectError) => (pc' # "done" /\ ret'.err = Nil)
       /\ (pc = "check" /\ stage.ExpectError /\ stage.responseErr # Nil) =>
             /\ stage'.result = "Success"
             /\ runContext'.Result = "Success"
             /\ Stats'.Success = Stats.Success + 1
             /\ Stats'.Run = Stats.Run + 1
             /\ KindsSum' = KindsSum + 1
             /\ pc' = "Stages"]_vars

(* Standard mode, nothing reaches the destination: neither marker is       *)
(* found, the request fails, and the stage is a Success; the run has room  *)
(* for a further stage.                                                    *)
C13_Witness ==
    /\ notRunningInCloudMode
    /\ pc = "Stages"
    /\ stage.ExpectError
    /\ stage.io = [conns |-> 1, reqs |-> 1, checks |-> 1, marks |-> 2]
    /\ stage.StartMarker = Nil /\ stage.EndMarker = Nil
    /\ stage.responseErr # Nil
    /\ stage.result = "Success"
    /\ Stats.Success = 1 /\ Stats.Run = 1
    /\ tests.stages < MaxStages

----------------------------------------------------------------------------
(* C14 *)

(* The markAndFlush invocation on record is the one for the end marker. *)
EndMarkerPhase == pc = "markEnd" \/ (stage.io.marks = 2 /\ mf.returned)

(* C14: once a log query has matched the stage's identifier as its start   *)
(* marker, the invocation for the end marker issues no log query for that  *)
(* same identifier.                                                        *)
C14_MatchedNotRequeried ==
    (EndMarkerPhase /\ stage.StartMarker = MarkerLine) =>
       ~(mf.queries > 0 /\ mf.stageID = stage.stageID)

----------------------------------------------------------------------------
(* C15 *)

(* C15: in cloud mode the log is never accessed.  Constructing the log     *)
(* reader opens no file and does not fail, with or without a log file      *)
(* name; no stage sends a marker probe, queries the log or sets a marker;  *)
(* and a stage that is evaluated has sent exactly one request.             *)
C15_CloudNoLogAccess ==
    cfg.RunMode = CloudRunMode =>
       /\ logLines.logFile = "nil" /\ closes = 0
       /\ ret.err \notin {"cannot open log file", "no log file supplied"}
       /\ ~InMarkLoop
       /\ mf = NoMark
       /\ stage.io.marks = 0
       /\ stage.StartMarker = Nil /\ stage.EndMarker = Nil
       /\ stage.io.reqs <= 1 /\ stage.io.conns <= 1
       /\ stage.io.checks = 1 => stage.io.reqs = 1

(* Cloud mode without a log file name: two stages have been executed. *)
C15_Witness ==
    /\ cfg.RunMode = CloudRunMode /\ cfg.LogFile = ""
    /\ pc = "Stages"
    /\ stage.io = [conns |-> 1, reqs |-> 1, checks |-> 1, marks |-> 0]
    /\ Stats.Run = 2

----------------------------------------------------------------------------
(* C16 *)

(* C16 as claimed: RunContext.Result is the result recorded for the last   *)
(* stage processed, a forced result included.                              *)
C16_ResultIsLastRecorded ==
    stage.result # Nil => runContext.Result = stage.result

(* C16 as amended: RunContext.Result is the result checkResult gave for    *)
(* the last stage that was evaluated.  The evaluation of a stage sets it   *)
(* to that stage's Success or Failed; no other step of a run changes it,   *)
(* so a stage recorded with a forced result leaves it as it was.           *)
C16_ResultIsLastEvaluated ==
    [][/\ pc = "check" =>
             /\ stage'.result \in {"Success", "Failed"}
             /\ runContext'.Result = stage'.result
       /\ (pc \notin {"check", "NewClient"}) =>
             runContext'.Result = runContext.Result
       /\ stage'.result \in ForcedKinds =>
             runContext'.Result = runContext.Result]_vars

(* A stage was evaluated as Failed, and a stage of the next test case was  *)
(* then recorded as ForcePass: Result is still Failed.                     *)
C16_Witness ==
    /\ pc = "Stages"
    /\ stage.result = "ForcePass"
    /\ Stats.ForcePass = 1 /\ Stats.Failed = 1
    /\ runContext.Result = "Failed"

----------------------------------------------------------------------------
(* C17 *)

(* What the stage has done so far: connections and requests of the real    *)
(* request, evaluations, markAndFlush invocations that returned.           *)
Events(conns, reqs, checks, marks) ==
    [conns |-> conns, reqs |-> reqs, checks |-> checks, marks |-> marks]

(* C17: in standard mode the events of a stage come in the order start     *)
(* probes, real request, end probes, evaluation: probes are sent in the    *)
(* two marker phases only, the start phase has returned before the         *)
(* request is sent, the request has been sent before the end phase         *)
(* begins, and the result is evaluated and recorded after the end phase    *)
(* has returned.  While a stage probes or sends, every stage handed to     *)
(* RunStage before it has its result recorded.                             *)
C17_EventOrder ==
    notRunningInCloudMode =>
       /\ pc = "markStart" =>
             (stage.io = ZeroIO /\ ~mf.returned)
       /\ pc = "request" =>
             (stage.io = Events(0, 0, 0, 1) /\ mf.returned)
       /\ pc = "markEnd" =>
             (stage.io = Events(1, 1, 0, 1) /\ ~mf.returned)
       /\ pc = "check" =>
             (stage.io = Events(1, 1, 0, 2) /\ mf.returned)
       /\ stage.io.checks = 1 =>
             /\ stage.io = Events(1, 1, 1, 2)
             /\ stage.result \in {"Success", "Failed"}
             /\ hist.results[stage.result] > 0
             /\ pc \in {"Stages", "done"}
       /\ (stage.result \in {"Success", "Failed"}) => stage.io.checks = 1
       /\ mf.probes > 0 => stage.io.checks = 0
       /\ InStage =>
             /\ stage.result = Nil
             /\ stage.stageID = hist.stageCalls
             /\ hist.stages = hist.stageCalls - 1
             /\ KindsSum = hist.stages + hist.skippedCases
       /\ ~InStage /\ pc # "done" => hist.stages = hist.stageCalls

(* The second stage of a run is in its end-marker phase, two probes sent,  *)
(* after a first stage was evaluated.                                      *)
C17_Witness ==
    /\ notRunningInCloudMode
    /\ pc = "markEnd"
    /\ mf.probes = 2
    /\ stage.stageID = 2
    /\ stage.StartMarker = MarkerLine
    /\ Stats.Run = 1

----------------------------------------------------------------------------
(* C18 *)

(* C18: markAndFlush goes on to a further attempt only after a probe that  *)
(* was delivered and whose marker the log query did not find.  A failed    *)
(* connection returns its error at once, with no probe and no log query    *)
(* in that attempt; a failed send returns its error at once, with no log   *)
(* query in that attempt; neither uses the attempts that remain.           *)
C18_RetryOnlyNotFound ==
    /\ ~mf.returned =>
          /\ mf.err = Nil /\ mf.hits = 0
          /\ mf.probes = mf.attempt /\ mf.queries = mf.attempt
    /\ mf.err = "can't connect to destination" =>
          /\ mf.returned /\ ~InMarkLoop
          /\ mf.marker = Nil /\ mf.hits = 0
          /\ mf.probes = mf.attempt - 1 /\ mf.queries = mf.attempt - 1
    /\ mf.err = "failed sending request" =>
          /\ mf.returned /\ ~InMarkLoop
          /\ mf.marker = Nil /\ mf.hits = 0
          /\ mf.probes = mf.attempt /\ mf.queries = mf.attempt - 1
    /\ (mf.returned /\ mf.err # MarkerNotFound) => mf.attempt <= MaxAttempts
    /\ mf.err = MarkerNotFound => mf.attempt = MaxAttempts

(* The third probe for the start marker cannot be sent: the stage fails    *)
(* with seventeen attempts unused.                                         *)
C18_Witness ==
    /\ pc = "done"
    /\ ret.err = "failed to find start marker"
    /\ mf.err = "failed sending request"
    /\ mf.attempt = 3 /\ mf.probes = 3 /\ mf.queries = 2

----------------------------------------------------------------------------
(* C19 *)

(* The errors RunStage returns for a failure of the real request. *)
TransportErrors ==
    {"can't connect to destination", "failed sending request to destination"}

(* C19: checkResult is never called with a transport error for a stage     *)
(* that expects no error.  A failure of the connection or of the send of   *)
(* the real request of such a stage ends the stage with an error and       *)
(* leaves Stats and RunContext.Result as they were; a stage that is         *)
(* recorded as Failed had a response.                                      *)
C19_NoTransportErrorEvaluated ==
    [][/\ (pc = "check" /\ stage.responseErr # Nil) =>
             (stage.ExpectError /\ stage'.result = "Success")
       /\ (pc = "check" /\ stage'.result = "Failed") => stage.responseErr = Nil
       /\ (pc = "request" /\ ~stage.ExpectError /\ stage'.responseErr # Nil) =>
             ret'.err = "failed sending request to destination"
       /\ (pc = "request" /\ ~stage.ExpectError /\ pc' # "done") =>
             (stage'.responseErr = Nil /\ stage'.io.reqs = 1)
       /\ ret'.err \in TransportErrors =>
             /\ pc' = "done"
             /\ ~stage'.ExpectError
             /\ stage'.result = Nil /\ stage'.io.checks = 0
             /\ runContext' = runContext
             /\ hist'.results = hist.results]_vars

(* The second stage of a run expects no error and its request cannot be    *)
(* sent: the run ends with the Stats and the Result of the first stage.    *)
C19_Witness ==
    /\ pc = "done"
    /\ ret.err = "failed sending request to destination"
    /\ ~stage.ExpectError /\ stage.responseErr # Nil
    /\ stage.io.checks = 0
    /\ Stats.Run = 1 /\ Stats.Failed = 0
    /\ runContext.Result = "Success"

----------------------------------------------------------------------------
(* C20 *)

(* C20: when Run has returned an error, the context it returned is the     *)
(* empty value, whatever had been accumulated; when it has returned no     *)
(* error, every test was gone through and the context returned is the      *)
(* run's, with its Stats.                                                  *)
C20_EmptyContextOnError ==
    /\ ret.err # Nil => (pc = "done" /\ ret.ctx = EmptyContext)
    /\ (pc = "done" /\ ret.err = Nil) =>
          /\ ret.ctx = runContext
          /\ hist.stages = hist.stageCalls
          /\ ret.ctx.Stats.Run = hist.results["Success"] + hist.results["Failed"]
    /\ pc # "done" => ret = NoRet

(* A stage fails after an earlier stage was recorded: Run returns the      *)
(* error and an empty context, the Stats of the first stage are lost.      *)
C20_Witness ==
    /\ pc = "done"
    /\ ret.err \in StageErrors
    /\ Stats.Run = 1 /\ KindsSum = 1
    /\ ret.ctx = EmptyContext
    /\ ret.ctx.Stats.Run = 0

====
